---- MODULE Spec2Model ----
(***************************************************************************)
(* State-machine model of txrudp.connection.RUDPConnection.                *)
(*                                                                         *)
(* A connection is a record; every method of the class is an operator from *)
(* a connection record to the connection record the method leaves behind,  *)
(* so that a handler is the composition of the calls it makes.  Four       *)
(* specifications share these operators: Spec drives one endpoint with     *)
(* arbitrary control packets, RecvSpec feeds one endpoint data packets in  *)
(* any order, DeathSpec gives one endpoint a peer that acknowledges        *)
(* nothing and a reactor that runs the calls that are due, and NetSpec     *)
(* connects two endpoints through a network that drops, duplicates and     *)
(* reorders datagrams.                                                     *)
(***************************************************************************)
EXTENDS Integers, Sequences, FiniteSets, TLC

VARIABLES conn, net

vars == <<conn, net>>

(* ------------------------------------------------------------------ *)
(* Sizes.  The three txrudp.constants values are scaled down; the rest  *)
(* bound the inputs.                                                    *)
(* ------------------------------------------------------------------ *)
\* constants.WINDOW_SIZE, scaled down
WINDOW_SIZE == 2
\* constants.MAX_RETRANSMISSIONS, scaled down
MAX_RETRANSMISSIONS == 2
\* constants.UDP_SAFE_SEGMENT_SIZE, scaled down
UDP_SAFE_SEGMENT_SIZE == 1
\* initial sequence numbers are drawn from 1..MaxISN
MaxISN == 1
\* total number of segments an endpoint's application ever submits
MaxSegs == 3
\* longest application message
MaxMsgLen == 2
\* an arbitrary peer's SYN carries a sequence number in 1..MaxPeerISN
MaxPeerISN == 1
\* an arbitrary peer's data packets carry sequence numbers 1..MaxPeerSeq
MaxPeerSeq == 4
\* longest record of delivered messages (the looping receive pauses there)
MaxDelivered == 2
\* NetSpec: segments an endpoint's application submits, datagrams in flight
MaxNetSegs == 2
MaxInFlight == 2
\* SegSpec: longest message segmented, largest segment size
MaxText == 5
MaxSize == 3
\* handle_shutdown() calls are counted up to this number
MaxShutdowns == 2
\* the most recent in-order schedulings that are remembered
MaxLog == 2

Ends == {1, 2}
Peer(e) == 3 - e

Min(a, b) == IF a < b THEN a ELSE b

(* ------------------------------------------------------------------ *)
(* Packets                                                              *)
(* ------------------------------------------------------------------ *)
RUDPPacket(seq, payload, mf, ack, syn, fin) ==
    [seq |-> seq, payload |-> payload, mf |-> mf,
     ack |-> ack, syn |-> syn, fin |-> fin]

IsBareAck(p) == p.seq = 0 /\ ~p.syn /\ ~p.fin /\ p.payload = <<>>

(* ------------------------------------------------------------------ *)
(* Receive heap (txrudp.heap.Heap)                                      *)
(* ------------------------------------------------------------------ *)
HeapPush(h, p) ==
    IF \E q \in h : q.seq = p.seq THEN h ELSE h \cup {p}

HeapMin(h) == CHOOSE q \in h : \A r \in h : q.seq <= r.seq

HeapAt(h, s) == CHOOSE q \in h : q.seq = s

\* TRUE when the packets of the message at the top of the heap are all there
HeapHasMessage(h) ==
    /\ h # {}
    /\ LET m == HeapMin(h).seq
           k == HeapMin(h).mf
       IN \A i \in 0..k : \E q \in h : q.seq = m + i /\ q.mf = k - i

\* the fragments attempt_popping_all_fragments returns (when it returns any)
HeapFragments(h) ==
    LET m == HeapMin(h).seq
        k == HeapMin(h).mf
    IN [i \in 1..(k + 1) |-> HeapAt(h, m + i - 1)]

HeapAfterPop(h) ==
    LET f == HeapFragments(h)
    IN h \ {f[i] : i \in 1..Len(f)}

(* ------------------------------------------------------------------ *)
(* Reactor timers                                                       *)
(* ------------------------------------------------------------------ *)
\* A connection's pending DelayedCalls, in the order callLater made them.
\* k is "syn" (the one-shot _send_syn), "send" and "recv" (the next call of a
\* running LoopingCall) or "rtx" (_do_send_packet of seq); imm tells a delay
\* of 0 from a delay of PACKET_TIMEOUT.
DelayedCall(k, seq, imm) == [k |-> k, seq |-> seq, imm |-> imm]

RemoveAt(q, i) == SubSeq(q, 1, i - 1) \o SubSeq(q, i + 1, Len(q))

\* The reactor runs the calls by due time: a call made with delay 0 runs
\* before every call made after it, a call made with PACKET_TIMEOUT after
\* every call made before it.
Fireable(tq, i) ==
    IF tq[i].imm THEN \A j \in 1..(i - 1) : ~tq[j].imm ELSE i = 1

CallLater(c, t) == [c EXCEPT !.tq = Append(@, t)]

Pending(tq, k) == {i \in 1..Len(tq) : tq[i].k = k}

RtxTimers(tq, seqnum) == {i \in Pending(tq, "rtx") : tq[i].seq = seqnum}

\* the call a window entry's timeout_cb refers to: the last one made for it
OwnTimer(tq, seqnum) ==
    CHOOSE i \in RtxTimers(tq, seqnum) : \A j \in RtxTimers(tq, seqnum) : j <= i

RECURSIVE RemoveAll(_, _)
RemoveAll(q, idx) ==
    IF idx = {} THEN q
    ELSE LET i == CHOOSE x \in idx : \A y \in idx : y <= x
         IN RemoveAll(RemoveAt(q, i), idx \ {i})

(* ------------------------------------------------------------------ *)
(* Connection record                                                    *)
(* ------------------------------------------------------------------ *)
\* The state __init__ leaves.  tq holds the reactor's pending calls of this
\* connection, and the ghost fields are
\*   isn        the initial sequence number drawn
\*   out        the datagrams the current handler passed to send_datagram
\*   exc        the exception the current handler raised, "" for none
\*   delivered  the messages handed to handler.receive_message
\*   hs         the number of handler.handle_shutdown() calls
\*   sched      the packets passed to _schedule_send_in_order, oldest first
\*   sub        the non-empty messages passed to send_message
NewConnection(isn) ==
    [connected  |-> FALSE,
     nsn        |-> isn,
     nes        |-> 0,
     segq       |-> <<>>,
     win        |-> <<>>,
     heap       |-> {},
     lsend      |-> FALSE,
     lack       |-> FALSE,
     lrecv      |-> FALSE,
     tq         |-> <<DelayedCall("syn", 0, TRUE)>>,
     isn        |-> isn,
     out        |-> <<>>,
     exc        |-> "",
     delivered  |-> <<>>,
     hs         |-> 0,
     sched      |-> <<>>,
     sub        |-> <<>>]

\* what is left between two events: out and exc describe one handler only
Settle(c) == [c EXCEPT !.out = <<>>, !.exc = ""]

\* self._syn_handle.active()
SynHandleActive(c) == Pending(c.tq, "syn") # {}

\* ScheduledPacket: the serialized packet and its retry count; cb tells
\* whether its timeout_cb is still pending, tx counts the datagrams sent
\* for the entry.
ScheduledPacket(p) ==
    [seq |-> p.seq, pkt |-> p, retries |-> 0, cb |-> TRUE, tx |-> 0]

HasKey(w, s) == \E i \in 1..Len(w) : w[i].seq = s
IndexOf(w, s) == CHOOSE i \in 1..Len(w) : w[i].seq = s
WinPop(w, s) == SelectSeq(w, LAMBDA x : x.seq # s)
Keys(w) == {w[i].seq : i \in 1..Len(w)}

\* sch_packet.timeout_cb.cancel(); cancelling a call that has run raises
CancelTimer(c, seqnum) ==
    IF c.win[IndexOf(c.win, seqnum)].cb
    THEN [c EXCEPT !.tq = RemoveAt(@, OwnTimer(c.tq, seqnum))]
    ELSE [c EXCEPT !.exc = "AlreadyCalled"]

Remember(log, x) ==
    IF Len(log) < MaxLog THEN Append(log, x) ELSE Append(Tail(log), x)

(* ------------------------------------------------------------------ *)
(* Methods                                                              *)
(* ------------------------------------------------------------------ *)
Segments_Floor(message, max_size) ==
    LET count == Len(message) \div max_size
    IN [i \in 1..count |->
          [mf |-> count - i,
           payload |-> SubSeq(message, (i - 1) * max_size + 1,
                              Min(i * max_size, Len(message)))]]

\* the body of _gen_segments for one max_size; the i-th pair, counted from
\* 1, is (count - i, message[(i - 1) * max_size : i * max_size])
Segments(message, max_size) ==
    LET count == (Len(message) + max_size - 1) \div max_size
    IN [i \in 1..count |->
          [mf |-> count - i,
           payload |-> SubSeq(message, (i - 1) * max_size + 1,
                              Min(i * max_size, Len(message)))]]

GenSegments(m) == Segments(m, UDP_SAFE_SEGMENT_SIZE)

SendDatagram(c, p) == [c EXCEPT !.out = Append(@, p)]

ScheduleSendOutOfOrder(c, p) == SendDatagram(c, p)

\* self._sending_window[seqnum] = ScheduledPacket(...): a key already there
\* keeps its place and gets the new record; the timer of the record it
\* replaces stays pending in the reactor.
ScheduleSendInOrder(c, p) ==
    LET c1 == CallLater(c, DelayedCall("rtx", p.seq, TRUE))
        c2 == [c1 EXCEPT !.sched = Remember(@, [seq |-> p.seq, syn |-> p.syn])]
    IN IF HasKey(c.win, p.seq)
       THEN [c2 EXCEPT !.win[IndexOf(c.win, p.seq)] = ScheduledPacket(p)]
       ELSE [c2 EXCEPT !.win = Append(@, ScheduledPacket(p))]

\* _looping_ack.start is reached only while _looping_ack is running
ResetAckTimeout(c) ==
    IF c.lack
    THEN IF c.connected THEN c ELSE [c EXCEPT !.lack = FALSE]
    ELSE c

\* LoopingCall.stop(): the pending call, if any, is cancelled
StopLoop(c, k) == [c EXCEPT !.tq = RemoveAll(@, Pending(@, k))]

\* the bug of stopping only once the window has overflowed
AttemptDisablingLoopingSend_Late(c) ==
    IF c.lsend /\ (Len(c.win) > WINDOW_SIZE \/ Len(c.segq) = 0)
    THEN StopLoop([c EXCEPT !.lsend = FALSE], "send")
    ELSE c

AttemptDisablingLoopingSend(c) ==
    IF c.lsend /\ (Len(c.win) >= WINDOW_SIZE \/ Len(c.segq) = 0)
    THEN StopLoop([c EXCEPT !.lsend = FALSE], "send")
    ELSE c

\* the bug of handing out the current number again
GetNextSequenceNumber_Stuck(c) == c

GetNextSequenceNumber(c) == [c EXCEPT !.nsn = @ + 1]

DequeueOutboundMessage(c) ==
    IF c.segq = <<>>
    THEN [c EXCEPT !.exc = "AssertionError"]
    ELSE LET seg == Head(c.segq)
             c1 == GetNextSequenceNumber([c EXCEPT !.segq = Tail(@)])
             p == RUDPPacket(c1.nsn, seg.payload, seg.mf, c1.nes, FALSE, FALSE)
         IN AttemptDisablingLoopingSend(ScheduleSendInOrder(c1, p))

\* LoopingCall.__call__ for _looping_send: the call, then the next call is
\* made with delay 0 if the loop still runs; a raised exception ends the loop
CallLoopingSend(c) ==
    LET c1 == DequeueOutboundMessage(c)
    IN IF c1.exc # "" THEN [c1 EXCEPT !.lsend = FALSE]
       ELSE IF c1.lsend THEN CallLater(c1, DelayedCall("send", 0, TRUE))
       ELSE c1

\* LoopingCall.start(0) makes the first call at once
AttemptEnablingLoopingSend(c) ==
    IF c.connected /\ ~c.lsend /\ Len(c.win) < WINDOW_SIZE /\ Len(c.segq) > 0
    THEN CallLoopingSend([c EXCEPT !.lsend = TRUE])
    ELSE c

SendSyn(c) ==
    ScheduleSendInOrder(c, RUDPPacket(c.nsn, <<>>, 0, c.nes, TRUE, FALSE))

SendAck(c) ==
    ResetAckTimeout(
        ScheduleSendOutOfOrder(c, RUDPPacket(0, <<>>, 0, c.nes, FALSE, FALSE)))

SendFin(c) ==
    ScheduleSendOutOfOrder(c, RUDPPacket(0, <<>>, 0, c.nes, FALSE, TRUE))

ClearSendingWindow_KeepTimers(c) == [c EXCEPT !.win = <<>>]

\* the timer of every entry is cancelled if it is pending; a timer no entry
\* refers to stays
ClearSendingWindow(c) ==
    LET own == {OwnTimer(c.tq, c.win[i].seq) : i \in {j \in 1..Len(c.win) : c.win[j].cb}}
    IN [c EXCEPT !.tq = RemoveAll(@, own), !.win = <<>>]

CountShutdown(n) == IF n < MaxShutdowns THEN n + 1 ELSE n

Shutdown(c) ==
    LET c1 == SendFin([c EXCEPT !.connected = FALSE])
        c2 == [c1 EXCEPT !.lack = FALSE]
        c3 == IF c2.lsend THEN StopLoop([c2 EXCEPT !.lsend = FALSE], "send") ELSE c2
        c4 == IF c3.lrecv THEN StopLoop([c3 EXCEPT !.lrecv = FALSE], "recv") ELSE c3
    IN [ClearSendingWindow(c4) EXCEPT !.hs = CountShutdown(@)]

\* the bug of allowing one transmission more
DoSendPacket_OneMore(c, seqnum) ==
    IF ~HasKey(c.win, seqnum)
    THEN [c EXCEPT !.exc = "KeyError"]
    ELSE LET i == IndexOf(c.win, seqnum)
             sch == c.win[i]
         IN IF sch.retries > MAX_RETRANSMISSIONS
            THEN Shutdown(c)
            ELSE LET c1 == SendDatagram(c, sch.pkt)
                     c2 == CallLater(c1, DelayedCall("rtx", seqnum, FALSE))
                     c3 == [c2 EXCEPT !.win[i].cb = TRUE,
                                      !.win[i].retries = @ + 1,
                                      !.win[i].tx = @ + 1]
                 IN ResetAckTimeout(c3)

DoSendPacket(c, seqnum) ==
    IF ~HasKey(c.win, seqnum)
    THEN [c EXCEPT !.exc = "KeyError"]
    ELSE LET i == IndexOf(c.win, seqnum)
             sch == c.win[i]
         IN IF sch.retries >= MAX_RETRANSMISSIONS
            THEN Shutdown(c)
            ELSE LET c1 == SendDatagram(c, sch.pkt)
                     c2 == CallLater(c1, DelayedCall("rtx", seqnum, FALSE))
                     c3 == [c2 EXCEPT !.win[i].cb = TRUE,
                                      !.win[i].retries = @ + 1,
                                      !.win[i].tx = @ + 1]
                 IN ResetAckTimeout(c3)

ProcessFinPacket(c, p) == Shutdown(c)

\* the loop of _retire_packets_with_seqnum_up_to: pop seqnum, seqnum + 1, ...
\* below acknum; a missing key raises KeyError and leaves the loop
RECURSIVE RetireLoop(_, _, _)
RetireLoop(c, seqnum, acknum) ==
    IF seqnum >= acknum THEN c
    ELSE IF ~HasKey(c.win, seqnum) THEN [c EXCEPT !.exc = "KeyError"]
    ELSE LET c1 == CancelTimer(c, seqnum)
         IN IF c1.exc # "" THEN [c1 EXCEPT !.win = WinPop(@, seqnum)]
            ELSE RetireLoop([c1 EXCEPT !.win = WinPop(@, seqnum)],
                            seqnum + 1, acknum)

RetireBound(c, acknum) == Min(acknum, c.nsn)

RetirePacketsWithSeqnumUpTo(c, acknum) ==
    IF c.win = <<>> THEN c
    ELSE LET lowest_seqnum == c.win[1].seq
             bound == RetireBound(c, acknum)
             c1 == RetireLoop(c, lowest_seqnum, bound)
         IN IF c1.exc # "" THEN c1
            ELSE IF lowest_seqnum < bound THEN AttemptEnablingLoopingSend(c1)
            ELSE c1

PopReceivedPacket(c) ==
    IF ~HeapHasMessage(c.heap)
    THEN IF c.lrecv THEN StopLoop([c EXCEPT !.lrecv = FALSE], "recv") ELSE c
    ELSE LET fragments == HeapFragments(c.heap)
             last_seqnum == fragments[Len(fragments)].seq
             c1 == [c EXCEPT !.heap = HeapAfterPop(c.heap)]
             c2 == IF c1.nes <= last_seqnum
                   THEN ResetAckTimeout([c1 EXCEPT !.nes = last_seqnum + 1])
                   ELSE c1
         IN [c2 EXCEPT !.delivered =
               Append(@, [first |-> fragments[1].seq,
                          last |-> last_seqnum,
                          payload |-> [i \in 1..Len(fragments) |->
                                          fragments[i].payload]])]

\* LoopingCall.__call__ for _looping_receive
CallLoopingReceive(c) ==
    LET c1 == PopReceivedPacket(c)
    IN IF c1.lrecv THEN CallLater(c1, DelayedCall("recv", 0, TRUE)) ELSE c1

\* called by _process_casual_packet; connection.py does not define it
AttemptEnablingLoopingReceive(c) ==
    IF ~c.lrecv THEN CallLoopingReceive([c EXCEPT !.lrecv = TRUE]) ELSE c

ProcessCasualPacket(c, p) ==
    LET c1 == IF p.ack > 0 /\ c.win # <<>>
              THEN RetirePacketsWithSeqnumUpTo(c, p.ack)
              ELSE c
    IN IF c1.exc # "" THEN c1
       ELSE IF p.seq > 0
       THEN LET c2 == [c1 EXCEPT !.heap = HeapPush(@, p)]
            IN IF p.seq = c2.nes
               THEN AttemptEnablingLoopingReceive(
                        ResetAckTimeout([c2 EXCEPT !.nes = @ + 1]))
               ELSE c2
       ELSE c1

AcksSyn_Same(ack, lowest_seqnum) == ack = lowest_seqnum

AcksSyn_AtLeast(ack, lowest_seqnum) == ack >= lowest_seqnum + 1

\* rudp_packet.ack == lowest_seqnum + 1
AcksSyn(ack, lowest_seqnum) == ack = lowest_seqnum + 1

ProcessSynPacket(c, p) ==
    IF p.ack > 0
    THEN IF c.win = <<>> THEN c
         ELSE LET lowest_seqnum == c.win[1].seq
              IN IF AcksSyn(p.ack, lowest_seqnum)
                 THEN LET c1 == CancelTimer(c, lowest_seqnum)
                          c2 == [c1 EXCEPT !.win = WinPop(@, lowest_seqnum)]
                      IN IF c2.exc # "" THEN c2
                         ELSE AttemptEnablingLoopingSend(
                                  [c2 EXCEPT !.connected = TRUE])
                 ELSE c
    ELSE LET c1 == ClearSendingWindow([c EXCEPT !.nes = p.seq + 1])
             c2 == IF ~SynHandleActive(c1) THEN SendSyn(c1) ELSE c1
         IN [c2 EXCEPT !.connected = TRUE]

ReceivePacket_SynAlways(c, p) ==
    IF p.fin
    THEN IF c.connected \/ ~SynHandleActive(c) THEN ProcessFinPacket(c, p) ELSE c
    ELSE IF p.syn THEN ProcessSynPacket(c, p)
    ELSE IF c.connected THEN ProcessCasualPacket(c, p)
    ELSE c

ReceivePacket(c, p) ==
    IF p.fin
    THEN IF c.connected \/ ~SynHandleActive(c) THEN ProcessFinPacket(c, p) ELSE c
    ELSE IF p.syn
    THEN IF ~c.connected THEN ProcessSynPacket(c, p) ELSE c
    ELSE IF c.connected THEN ProcessCasualPacket(c, p)
    ELSE c

RECURSIVE AppendAll(_, _)
AppendAll(q, segs) ==
    IF segs = <<>> THEN q ELSE AppendAll(Append(q, Head(segs)), Tail(segs))

SendMessage(c, m) ==
    AttemptEnablingLoopingSend(
        [c EXCEPT !.segq = AppendAll(@, GenSegments(m)),
                  !.sub = IF m = <<>> THEN @ ELSE Append(@, m)])

\* the reactor runs pending call i
RunCall(c, i) ==
    LET t == c.tq[i]
        c0 == [c EXCEPT !.tq = RemoveAt(@, i)]
    IN CASE t.k = "syn" -> SendSyn(c0)
         [] t.k = "send" -> CallLoopingSend(c0)
         [] t.k = "recv" -> CallLoopingReceive(c0)
         [] t.k = "rtx" ->
              IF HasKey(c.win, t.seq) /\ c.win[IndexOf(c.win, t.seq)].cb
                 /\ i = OwnTimer(c.tq, t.seq)
              THEN DoSendPacket(
                       [c0 EXCEPT !.win[IndexOf(c.win, t.seq)].cb = FALSE], t.seq)
              ELSE DoSendPacket(c0, t.seq)

(* ------------------------------------------------------------------ *)
(* Events of one endpoint                                               *)
(* ------------------------------------------------------------------ *)
\* the k-th message of the application, len bytes long
Msg(k, len) == [i \in 1..len |-> 10 * k + i]

SegCount(len) == (len + UDP_SAFE_SEGMENT_SIZE - 1) \div UDP_SAFE_SEGMENT_SIZE

\* segments submitted so far: those dequeued and those still queued
Submitted(c) == (c.nsn - c.isn) + Len(c.segq)

AckRange == 0..(MaxISN + MaxSegs + 1)

\* the packets an arbitrary peer may send: FIN, SYN and SYNACK, bare ACK,
FinPackets == {RUDPPacket(0, <<>>, 0, 0, FALSE, TRUE)}

SynPackets(acks) ==
    {RUDPPacket(s, <<>>, 0, a, TRUE, FALSE) : s \in 1..MaxPeerISN, a \in acks}

AckPackets == {RUDPPacket(0, <<>>, 0, a, FALSE, FALSE) : a \in AckRange}

\* and data packets: sequence number, more_fragments and ack vary, the
\* payload names the sequence number
DataPackets(seqs, mfs, acks) ==
    {RUDPPacket(x[1], <<x[1]>>, x[2], x[3], FALSE, FALSE) :
        x \in seqs \X mfs \X acks}

\* Spec: the control packets, with any ack
InPackets == FinPackets \cup SynPackets(AckRange) \cup AckPackets

\* RecvSpec: FIN, a bare SYN, and data packets in any order, with gaps and
\* repetitions; 2 is the lowest sequence number that can follow a SYN
RecvPackets ==
    FinPackets \cup SynPackets({0}) \cup DataPackets(2..MaxPeerSeq, 0..1, {0})

\* the connection after each event, and the guard of the event
CanSend(c, len) == Submitted(c) + SegCount(len) <= MaxSegs
AfterSend(c, len) == SendMessage(c, Msg(Len(c.sub) + 1, len))
AfterReceive(c, p) == ReceivePacket(c, p)
AfterShutdown(c) == Shutdown(c)
CanRun(c, i, k) == i \in Pending(c.tq, k) /\ Fireable(c.tq, i)

(* ------------------------------------------------------------------ *)
(* Spec: one endpoint, a peer that sends any control packet             *)
(* ------------------------------------------------------------------ *)
Local(c) ==
    /\ Len(c.delivered) <= MaxDelivered
    /\ conn' = [conn EXCEPT ![1] = Settle(c)]
    /\ UNCHANGED net

Init ==
    /\ \E isn \in 1..MaxISN :
          conn = [e \in Ends |-> NewConnection(IF e = 1 THEN isn ELSE 1)]
    /\ net = {}

AppSend ==
    \E len \in 0..MaxMsgLen :
        CanSend(conn[1], len) /\ Local(AfterSend(conn[1], len))

Receive == \E p \in InPackets : Local(AfterReceive(conn[1], p))

SynOneShot ==
    \E i \in 1..Len(conn[1].tq) :
        CanRun(conn[1], i, "syn") /\ Local(RunCall(conn[1], i))

SendTick ==
    \E i \in 1..Len(conn[1].tq) :
        CanRun(conn[1], i, "send") /\ Local(RunCall(conn[1], i))

RecvTick ==
    \E i \in 1..Len(conn[1].tq) :
        CanRun(conn[1], i, "recv") /\ Local(RunCall(conn[1], i))

Timer ==
    \E i \in 1..Len(conn[1].tq) :
        CanRun(conn[1], i, "rtx") /\ Local(RunCall(conn[1], i))

AppShutdown == Local(AfterShutdown(conn[1]))

Next ==
    \/ AppSend
    \/ Receive
    \/ SynOneShot
    \/ SendTick
    \/ Timer
    \/ AppShutdown

Spec == Init /\ [][Next]_vars

(* ------------------------------------------------------------------ *)
(* RecvSpec: one endpoint whose application sends nothing, fed data     *)
(* packets in any order                                                 *)
(* ------------------------------------------------------------------ *)
RecvData == \E p \in RecvPackets : Local(AfterReceive(conn[1], p))

RecvNext ==
    \/ RecvData
    \/ SynOneShot
    \/ RecvTick
    \/ Timer
    \/ AppShutdown

RecvSpec == Init /\ [][RecvNext]_vars

(* ------------------------------------------------------------------ *)
(* DeathSpec: one endpoint whose peer acknowledges nothing: it sends a  *)
(* bare SYN or a bare ACK with ack 0.  The reactor runs the calls       *)
(* that are due.                                                        *)
(* ------------------------------------------------------------------ *)
SilentPackets == SynPackets({0}) \cup {RUDPPacket(0, <<>>, 0, 0, FALSE, FALSE)}

DeathReceive == \E p \in SilentPackets : Local(AfterReceive(conn[1], p))

DeathNext ==
    \/ AppSend
    \/ DeathReceive
    \/ SynOneShot
    \/ SendTick
    \/ Timer

DeathSpec ==
    /\ Init
    /\ [][DeathNext]_vars
    /\ WF_vars(SynOneShot)
    /\ WF_vars(SendTick)
    /\ WF_vars(Timer)

(* ------------------------------------------------------------------ *)
(* NetSpec: two endpoints and the datagrams in flight between them.     *)
(* A handler's datagrams go on the wire addressed to the peer; the wire *)
(* holds MaxInFlight datagrams and loses what does not fit.             *)
(* ------------------------------------------------------------------ *)
Datagram(dst, p) == [dst |-> dst, pkt |-> p]

RECURSIVE Transmit(_, _, _)
Transmit(wire, dst, out) ==
    IF out = <<>> THEN wire
    ELSE Transmit(IF Cardinality(wire \cup {Datagram(dst, Head(out))}) <= MaxInFlight
                  THEN wire \cup {Datagram(dst, Head(out))}
                  ELSE wire,
                  dst, Tail(out))

NetStep(e, c, wire) ==
    /\ Len(c.delivered) <= MaxDelivered
    /\ conn' = [conn EXCEPT ![e] = Settle(c)]
    /\ net' = Transmit(wire, Peer(e), c.out)

NetInit ==
    /\ \E isn \in 1..MaxISN :
          conn = [e \in Ends |-> NewConnection(IF e = 1 THEN isn ELSE MaxISN + 1)]
    /\ net = {}

\* the application of endpoint 1 sends
NetAppSend ==
    \E len \in 1..MaxMsgLen :
        /\ Submitted(conn[1]) + SegCount(len) <= MaxNetSegs
        /\ NetStep(1, AfterSend(conn[1], len), net)

\* a datagram arrives and leaves the wire
NetDeliver ==
    \E d \in net : NetStep(d.dst, AfterReceive(conn[d.dst], d.pkt), net \ {d})

\* a datagram arrives and a copy of it stays on the wire
NetDuplicate ==
    \E d \in net : NetStep(d.dst, AfterReceive(conn[d.dst], d.pkt), net)

NetLose == \E d \in net : net' = net \ {d} /\ UNCHANGED conn

NetSynOneShot ==
    \E e \in Ends : \E i \in 1..Len(conn[e].tq) :
        CanRun(conn[e], i, "syn") /\ NetStep(e, RunCall(conn[e], i), net)

NetSendTick ==
    \E e \in Ends : \E i \in 1..Len(conn[e].tq) :
        CanRun(conn[e], i, "send") /\ NetStep(e, RunCall(conn[e], i), net)

NetRecvTick ==
    \E e \in Ends : \E i \in 1..Len(conn[e].tq) :
        CanRun(conn[e], i, "recv") /\ NetStep(e, RunCall(conn[e], i), net)

NetTimer ==
    \E e \in Ends : \E i \in 1..Len(conn[e].tq) :
        CanRun(conn[e], i, "rtx") /\ NetStep(e, RunCall(conn[e], i), net)

NetShutdown ==
    \E e \in Ends :
        conn[e].hs = 0 /\ NetStep(e, AfterShutdown(conn[e]), net)

NetNext ==
    \/ NetAppSend
    \/ NetDeliver
    \/ NetDuplicate
    \/ NetLose
    \/ NetSynOneShot
    \/ NetSendTick
    \/ NetRecvTick
    \/ NetTimer
    \/ NetShutdown

NetSpec == NetInit /\ [][NetNext]_vars

(* ------------------------------------------------------------------ *)
(* SegSpec: _gen_segments alone.  The wire holds one job: a message     *)
(* over two byte values, a segment size, and the segments once          *)
(* _gen_segments has run.                                               *)
(* ------------------------------------------------------------------ *)
Texts == UNION {[1..n -> {1, 2}] : n \in 0..MaxText}

SegInit ==
    /\ conn = [e \in Ends |-> NewConnection(1)]
    /\ \E m \in Texts, size \in 1..MaxSize :
          net = {[message |-> m, max_size |-> size, done |-> FALSE,
                  segments |-> <<>>]}

SegRun ==
    \E job \in net :
        /\ ~job.done
        /\ net' = {[job EXCEPT !.done = TRUE,
                               !.segments = Segments(job.message, job.max_size)]}
        /\ UNCHANGED conn

SegNext == SegRun

SegSpec == SegInit /\ [][SegNext]_vars

(* ------------------------------------------------------------------ *)
(* Claims                                                               *)
(* ------------------------------------------------------------------ *)
BareAck(a) == RUDPPacket(0, <<>>, 0, a, FALSE, FALSE)

\* the pending calls whose run is _do_send_packet on an entry out of retries
Exhausting(c) ==
    {i \in 1..Len(c.tq) :
        /\ CanRun(c, i, "rtx")
        /\ HasKey(c.win, c.tq[i].seq)
        /\ c.win[IndexOf(c.win, c.tq[i].seq)].retries >= MAX_RETRANSMISSIONS}

\* the data packets that made up delivered message d
PacketsOf(d) ==
    {RUDPPacket(d.first + k - 1, d.payload[k], d.last - (d.first + k - 1),
                0, FALSE, FALSE) : k \in 1..Len(d.payload)}

\* C2: the last_seqnums of the messages handed to the handler increase
\* strictly, and a message starts at the sequence number that follows the
\* message before it: none is skipped.
C2_GapFreeInOrder ==
    LET d == conn[1].delivered
    IN conn[1].hs = 0 =>
       /\ \A i, j \in 1..Len(d) : i < j => d[i].last < d[j].last
       /\ \A i \in 1..(Len(d) - 1) : d[i + 1].first = d[i].last + 1

\* C3: a packet received again changes nothing: no sequence number is handed
\* to the handler twice, and receiving again a packet of a delivered message
\* delivers nothing and emits at most bare ACKs.
C3_DuplicateTolerance ==
    LET c == conn[1]
        d == c.delivered
    IN conn[1].hs = 0 =>
       /\ \A i, j \in 1..Len(d) :
             i < j => (d[i].last < d[j].first \/ d[j].last < d[i].first)
       /\ \A i \in 1..Len(d) : \A p \in PacketsOf(d[i]) :
             LET r == ReceivePacket(c, p)
             IN /\ r.delivered = d
                /\ \A k \in 1..Len(r.out) : IsBareAck(r.out[k])

\* C4: handler.handle_shutdown() is invoked at most once on a connection,
\* and a shutdown() after the first one emits no datagram.
C4_ShutdownIdempotent ==
    /\ conn[1].hs <= 1
    /\ conn[1].hs >= 1 => AfterShutdown(conn[1]).out = <<>>

\* C5: the send window never holds more than WINDOW_SIZE entries.
C5_BoundedWindow == Len(conn[1].win) <= WINDOW_SIZE

\* a full window that holds a SYN beside data, with segments still queued
C5_Witness ==
    /\ Len(conn[1].win) = WINDOW_SIZE
    /\ conn[1].segq # <<>>
    /\ \E i, j \in 1..Len(conn[1].win) :
          conn[1].win[i].pkt.syn /\ ~conn[1].win[j].pkt.syn

\* C6: a casual packet with ack > 0, processed by a connected endpoint with a
\* non-empty send window, removes exactly the entries with
\* seqnum < min(ack, next_sequence_number + 1).
C6_AckRetirement ==
    \A a \in AckRange \ {0} :
        LET c == conn[1]
            r == ProcessCasualPacket(c, BareAck(a))
        IN (c.connected /\ c.win # <<>>) =>
              Keys(r.win) \cap Keys(c.win) =
                  {s \in Keys(c.win) : s >= Min(a, c.nsn + 1)}

\* C7: no window entry is transmitted more than MAX_RETRANSMISSIONS times,
\* and a timer that fires on an entry with retries >= MAX_RETRANSMISSIONS
\* sends no datagram for it and runs shutdown() instead.
C7_RetransmissionBudget ==
    LET c == conn[1]
    IN /\ \A i \in 1..Len(c.win) : c.win[i].tx <= MAX_RETRANSMISSIONS
       /\ \A i \in Exhausting(c) :
             LET r == RunCall(c, i)
             IN /\ Len(r.out) = 1 /\ r.out[1].fin
                /\ ~r.connected /\ r.win = <<>>
                /\ r.hs = CountShutdown(c.hs)

\* an entry that has used its whole budget and whose timer is due
C7_Witness ==
    \E i \in Exhausting(conn[1]) :
        conn[1].win[IndexOf(conn[1].win, conn[1].tq[i].seq)].tx = MAX_RETRANSMISSIONS

\* the state the exhausted retransmission leaves behind
PeerDeathState(c, r) ==
    /\ r.hs = CountShutdown(c.hs)
    /\ ~r.connected /\ r.win = <<>>
    /\ Pending(r.tq, "rtx") = {}
    /\ ~r.lsend /\ ~r.lack /\ ~r.lrecv
    /\ Pending(r.tq, "send") = {} /\ Pending(r.tq, "recv") = {}

\* handle_shutdown() has been seen and nothing is left running
Dead(c) == c.hs >= 1 /\ PeerDeathState([c EXCEPT !.hs = c.hs - 1], c)

\* C8: while the peer acknowledges nothing, a packet in the send window
\* leads to handle_shutdown(); and the timer that fires on an entry out of
\* retries leaves connected = false, an empty window, no pending retransmit
\* timer and none of the three looping drivers running.
C8_PeerDeath ==
    /\ [](\A i \in Exhausting(conn[1]) :
             PeerDeathState(conn[1], RunCall(conn[1], i)))
    /\ (conn[1].win # <<>>) ~> Dead(conn[1])

\* the endpoint after its retransmissions ran out, before anything else
C8_Witness == Dead(conn[1]) /\ conn[1].tq = <<>> /\ conn[1].hs = 1

RECURSIVE Join(_)
Join(f) == IF f = <<>> THEN <<>> ELSE Head(f) \o Join(Tail(f))

\* the messages handed to the handler, in order
Received(c) == [i \in 1..Len(c.delivered) |-> Join(c.delivered[i].payload)]

IsPrefix(a, b) == Len(a) <= Len(b) /\ a = SubSeq(b, 1, Len(a))

\* C1 (its safety half): while neither endpoint has shut down, the messages
\* handed to the handler of endpoint 2 are the first messages endpoint 1's
\* application sent, each once and in the order they were sent.
C1_ExactlyOnceInOrder ==
    (conn[1].hs = 0 /\ conn[2].hs = 0) =>
        IsPrefix(Received(conn[2]), conn[1].sub)

\* a SYN or SYNACK is in the window and a timer will retransmit it
HoldsSyn(c) ==
    \E i \in 1..Len(c.win) :
        c.win[i].pkt.syn /\ RtxTimers(c.tq, c.win[i].seq) # {}

\* receiving a SYN or SYNACK that c holds leaves u connected
Converges(c, u) ==
    \A i \in 1..Len(c.win) :
        c.win[i].pkt.syn => ReceivePacket(u, c.win[i].pkt).connected

StraySynAcks(c) ==
    {p \in SynPackets(AckRange \ {0}) :
        c.win = <<>> \/ p.ack # c.win[1].seq + 1}

\* C11: a SYN packet with ack > 0 that a not-connected endpoint receives
\* while its window is empty, or whose ack is not the oldest window seqnum
\* plus one, changes nothing (connected, window, timers,
\* next_expected_seqnum) and makes the endpoint emit no datagram.
C11_StraySynAckDropped ==
    \A p \in StraySynAcks(conn[1]) :
        ~conn[1].connected => ReceivePacket(conn[1], p) = conn[1]

\* a not-connected endpoint that retransmits its SYN, and SYNACKs that
\* acknowledge another sequence number
C11_Witness ==
    /\ ~conn[1].connected
    /\ conn[1].win # <<>>
    /\ conn[1].win[1].retries > 0
    /\ \E p \in StraySynAcks(conn[1]) : p.ack > conn[1].win[1].seq + 1

\* C12 (what it needs at the receipt): when a connected endpoint with no
\* outbound data receives the data packet it expects, the looping ACK is
\* left running, so that it fires and emits the bare ACK.
C12_AckArmed ==
    \A p \in DataPackets(2..MaxPeerSeq, 0..1, {0}) :
        (conn[1].connected /\ p.seq = conn[1].nes) =>
            ReceivePacket(conn[1], p).lack

\* C13: before any shutdown, a SYN or SYNACK in the send window (the one the
\* one-shot scheduled or the reply to a bare SYN, with its retransmissions)
\* carries the connection's initial sequence number.
C13_SynCarriesISN ==
    conn[1].hs = 0 =>
        \A i \in 1..Len(conn[1].win) :
            conn[1].win[i].pkt.syn => conn[1].win[i].seq = conn[1].isn

\* C14: a retransmit timer that fires finds its seqnum among the keys of the
\* send window, and the retirement an inbound packet causes pops only keys
\* of the send window: no KeyError is raised.
C14_NoKeyError ==
    /\ \A i \in 1..Len(conn[1].tq) :
          CanRun(conn[1], i, "rtx") => HasKey(conn[1].win, conn[1].tq[i].seq)
    /\ \A p \in InPackets : AfterReceive(conn[1], p).exc # "KeyError"

\* the packets that match no dispatch branch of receive_packet
Undispatched(c) ==
    {p \in InPackets \cup RecvPackets :
        \/ p.fin /\ ~c.connected /\ SynHandleActive(c)
        \/ ~p.fin /\ p.syn /\ c.connected
        \/ ~p.fin /\ ~p.syn /\ ~c.connected}

\* C15: a packet that matches no dispatch branch (FIN while not connected
\* with the SYN one-shot pending, SYN while connected, unflagged packet
\* while not connected) leaves every field of the connection unchanged,
\* emits no datagram and calls no handler method.
C15_SilentDrop ==
    \A p \in Undispatched(conn[1]) : ReceivePacket(conn[1], p) = conn[1]

\* a connected endpoint whose oldest window entry a SYNACK would acknowledge
C15_Witness ==
    /\ conn[1].connected
    /\ conn[1].win # <<>>
    /\ \E p \in Undispatched(conn[1]) :
          p.syn /\ p.ack = conn[1].win[1].seq + 1

\* ceil(n / d), by its definition
CeilDiv(n, d) == CHOOSE q \in 0..n : q * d >= n /\ (q = 0 \/ (q - 1) * d < n)

\* C16: for a non-empty message m and segment size S, _gen_segments yields
\* ceil(|m| / S) pairs, their payloads joined in order are m, the remaining
\* counts run from count - 1 down to 0, and every payload has between 1 and
\* S bytes; for the empty message it yields nothing.
C16_SegmentationRoundTrip ==
    \A job \in net :
        job.done =>
            LET m == job.message
                segs == job.segments
            IN /\ Len(segs) = CeilDiv(Len(m), job.max_size)
               /\ Join([i \in 1..Len(segs) |-> segs[i].payload]) = m
               /\ \A i \in 1..Len(segs) :
                     /\ segs[i].mf = Len(segs) - i
                     /\ Len(segs[i].payload) \in 1..job.max_size
               /\ m = <<>> => segs = <<>>

\* a message segmented into several segments, the last one shorter
C16_Witness ==
    \E job \in net :
        /\ job.done
        /\ Len(job.segments) >= 2
        /\ Len(job.message) % job.max_size # 0

\* C17: a send-window entry has at most one pending retransmit timer, and a
\* pending retransmit timer is the timer of a current send-window entry.
C17_OneTimerPerEntry ==
    /\ \A i \in 1..Len(conn[1].win) :
          Cardinality(RtxTimers(conn[1].tq, conn[1].win[i].seq)) <= 1
    /\ \A i \in Pending(conn[1].tq, "rtx") :
          /\ HasKey(conn[1].win, conn[1].tq[i].seq)
          /\ conn[1].win[IndexOf(conn[1].win, conn[1].tq[i].seq)].cb
          /\ i = OwnTimer(conn[1].tq, conn[1].tq[i].seq)

\* C18: once a message has been handed to the handler, and until a
\* shutdown, the receive heap holds no packet whose seqnum is below
\* next_expected_seqnum, whatever packet arrives afterwards.
C18_HeapAboveExpected ==
    (conn[1].delivered # <<>> /\ conn[1].hs = 0) =>
        \A q \in conn[1].heap : q.seq >= conn[1].nes

\* C19: between events the looping send is running exactly when the
\* endpoint is connected, the window has room and segments are queued; and a
\* call of the looping send never finds the segment queue empty.
C19_LoopingSendEnabled ==
    /\ conn[1].lsend <=> /\ conn[1].connected
                         /\ Len(conn[1].win) < WINDOW_SIZE
                         /\ conn[1].segq # <<>>
    /\ \A i \in 1..Len(conn[1].tq) :
          CanRun(conn[1], i, "send") => conn[1].segq # <<>>

\* C20: a SYN or SYNACK whose receipt establishes the connection leaves
\* next_expected_seqnum at the sequence number of that packet plus one, so
\* every connected endpoint has a positive next_expected_seqnum.
C20_ExpectedSeqnumSet ==
    /\ conn[1].connected => conn[1].nes > 0
    /\ \A p \in SynPackets(AckRange) :
          (~conn[1].connected /\ AfterReceive(conn[1], p).connected) =>
              AfterReceive(conn[1], p).nes = p.seq + 1

\* every data segment in the window of c is in the window of r, with the
\* packet it was scheduled with
SegmentsKept(c, r) ==
    \A i \in 1..Len(c.win) :
        ~c.win[i].pkt.syn =>
            \E j \in 1..Len(r.win) : r.win[j].pkt = c.win[i].pkt

\* C21: a data segment in the send window stays there with its own packet
\* through every event that is neither an ack retirement nor a shutdown:
\* the SYN one-shot, a call of the looping send, a retransmission, a
\* send_message, a received SYN or SYNACK.
C21_NoSegmentLost ==
    LET c == conn[1]
    IN /\ \A i \in 1..Len(c.tq) :
             (CanRun(c, i, "syn") \/ CanRun(c, i, "send")) =>
                 SegmentsKept(c, RunCall(c, i))
       /\ \A i \in 1..Len(c.tq) :
             (CanRun(c, i, "rtx") /\ i \notin Exhausting(c)) =>
                 SegmentsKept(c, RunCall(c, i))
       /\ \A len \in 0..MaxMsgLen : SegmentsKept(c, AfterSend(c, len))
       /\ \A p \in SynPackets(AckRange) : SegmentsKept(c, AfterReceive(c, p))

\* C22: once shutdown() has run, the endpoint is never connected again and
\* its send window stays empty, whatever is received and whichever pending
\* call runs.
C22_ShutdownTerminal ==
    conn[1].hs >= 1 => (~conn[1].connected /\ conn[1].win = <<>>)
====
